---- MODULE Spec2Model ----
(***************************************************************************)
(* A model of metaflac_gui.py: the MetaFLACGUI session (current file, the  *)
(* nineteen tag entries, the custom-tags text), the external metaflac      *)
(* invocations each handler makes, and the tags left on the files.         *)
(*                                                                         *)
(* Text is modelled character by character: a Python str is a sequence of  *)
(* one-character strings, so that strip, split, upper, lower and endswith  *)
(* are computed as Python computes them.  None is the empty tuple and a    *)
(* present value x is <<x>>.                                               *)
(***************************************************************************)
EXTENDS Integers, Sequences, FiniteSets, TLC

VARIABLES
    argv,              \* the positional arguments the process was started with
    phase,             \* "start", "running" (mainloop), "exited" (sys.exit), "quit" (root.quit)
    exit_status,       \* None, or <<status>> once the process has ended
    stdout,            \* kinds of message printed on standard output
    stderr,            \* kinds of message printed on standard error
    window,            \* TRUE once tk.Tk() has created the window
    current_file,      \* self.current_file: None or <<path>>
    tag_entries,       \* self.tag_entries: tag name -> text of its Entry
    custom_tags_text,  \* content of self.custom_tags_text (without the widget's final newline)
    disk,              \* FLAC file path -> the comment lines metaflac has stored in it
    op,                \* the handler that ran last
    launches,          \* the metaflac invocations the last handler attempted, in order
    dialogs,           \* the message boxes the last handler showed, in order
    saved              \* None, or <<[file, entries, text]>>: the form a save_tags wrote in full
                       \* to file, while only load_tags has run since

vars == <<argv, phase, exit_status, stdout, stderr, window, current_file,
          tag_entries, custom_tags_text, disk, op, launches, dialogs, saved>>

None == <<>>
Some(x) == <<x>>

(***************************************************************************)
(* Python str operations                                                   *)
(***************************************************************************)
NL == "\n"
EQ == "="

\* the characters str.strip() with no argument removes
Whitespace == {" ", "\t", "\n", "\r", "\f"}

UpperOf ==
    [a |-> "A", b |-> "B", c |-> "C", d |-> "D", e |-> "E", f |-> "F", g |-> "G",
     h |-> "H", i |-> "I", j |-> "J", k |-> "K", l |-> "L", m |-> "M", n |-> "N",
     o |-> "O", p |-> "P", q |-> "Q", r |-> "R", s |-> "S", t |-> "T", u |-> "U",
     v |-> "V", w |-> "W", x |-> "X", y |-> "Y", z |-> "Z"]

LowerOf ==
    [A |-> "a", B |-> "b", C |-> "c", D |-> "d", E |-> "e", F |-> "f", G |-> "g",
     H |-> "h", I |-> "i", J |-> "j", K |-> "k", L |-> "l", M |-> "m", N |-> "n",
     O |-> "o", P |-> "p", Q |-> "q", R |-> "r", S |-> "s", T |-> "t", U |-> "u",
     V |-> "v", W |-> "w", X |-> "x", Y |-> "y", Z |-> "z"]

\* str.upper() left out: the text as it is
upper_omitted(s) == s

\* str.upper()
upper(s) == [i \in 1..Len(s) |-> IF s[i] \in DOMAIN UpperOf THEN UpperOf[s[i]] ELSE s[i]]

\* str.lower()
lower(s) == [i \in 1..Len(s) |-> IF s[i] \in DOMAIN LowerOf THEN LowerOf[s[i]] ELSE s[i]]

\* str.endswith(suffix)
endswith(s, suffix) ==
    /\ Len(s) >= Len(suffix)
    /\ SubSeq(s, Len(s) - Len(suffix) + 1, Len(s)) = suffix

RECURSIVE lstrip(_)
lstrip(s) == IF s # <<>> /\ Head(s) \in Whitespace THEN lstrip(Tail(s)) ELSE s

RECURSIVE rstrip(_)
rstrip(s) ==
    IF s # <<>> /\ s[Len(s)] \in Whitespace THEN rstrip(SubSeq(s, 1, Len(s) - 1)) ELSE s

\* str.strip()
strip(s) == rstrip(lstrip(s))

\* sep in s, for a one-character sep
contains(s, sep) == \E i \in 1..Len(s) : s[i] = sep

\* s.find(sep) + 1 for a one-character sep that occurs in s
first_index(s, sep) == CHOOSE i \in 1..Len(s) : s[i] = sep /\ \A j \in 1..(i - 1) : s[j] # sep

\* s.split(sep): always at least one piece
RECURSIVE split(_, _)
split(s, sep) ==
    IF ~contains(s, sep) THEN <<s>>
    ELSE LET i == first_index(s, sep)
         IN  <<SubSeq(s, 1, i - 1)>> \o split(SubSeq(s, i + 1, Len(s)), sep)

\* s.split(sep, 1) of a string that contains sep: <<before, after>>
split_once(s, sep) ==
    LET i == first_index(s, sep)
    IN  <<SubSeq(s, 1, i - 1), SubSeq(s, i + 1, Len(s))>>

\* sep.join(pieces)
RECURSIVE join(_, _)
join(pieces, sep) ==
    IF pieces = <<>> THEN <<>>
    ELSE IF Len(pieces) = 1 THEN pieces[1]
    ELSE pieces[1] \o <<sep>> \o join(Tail(pieces), sep)

\* a Python truth test of an optional str: None and "" are false
truthy(opt) == opt # None /\ opt[1] # <<>>

(***************************************************************************)
(* Program constants and the world outside the program                     *)
(***************************************************************************)
\* self.common_tags, in the order the entries are created and iterated
common_tags == <<
    <<"B", "P", "M">>,
    <<"G", "E", "N", "R", "E">>,
    <<"T", "I", "T", "L", "E">>,
    <<"A", "R", "T", "I", "S", "T">>,
    <<"A", "L", "B", "U", "M">>,
    <<"D", "A", "T", "E">>,
    <<"T", "R", "A", "C", "K", "N", "U", "M", "B", "E", "R">>,
    <<"A", "L", "B", "U", "M", "A", "R", "T", "I", "S", "T">>,
    <<"C", "O", "M", "P", "O", "S", "E", "R">>,
    <<"P", "E", "R", "F", "O", "R", "M", "E", "R">>,
    <<"C", "O", "N", "D", "U", "C", "T", "O", "R">>,
    <<"C", "O", "M", "M", "E", "N", "T">>,
    <<"D", "I", "S", "C", "N", "U", "M", "B", "E", "R">>,
    <<"T", "O", "T", "A", "L", "T", "R", "A", "C", "K", "S">>,
    <<"T", "O", "T", "A", "L", "D", "I", "S", "C", "S">>,
    <<"M", "U", "S", "I", "C", "B", "R", "A", "I", "N", "Z", "_", "T", "R", "A", "C", "K", "I", "D">>,
    <<"M", "U", "S", "I", "C", "B", "R", "A", "I", "N", "Z", "_", "A", "L", "B", "U", "M", "I", "D">>,
    <<"M", "U", "S", "I", "C", "B", "R", "A", "I", "N", "Z", "_", "A", "R", "T", "I", "S", "T", "I", "D">>,
    <<"I", "S", "R", "C">> >>

\* the keys of self.tag_entries
TagNames == {common_tags[i] : i \in 1..Len(common_tags)}

\* the suffix main() asks of the startup path
FlacSuffix == <<".", "f", "l", "a", "c">>

\* the directory the process runs in, which os.path.abspath prepends
Cwd == <<"/", "d">>

PathA == <<"/", "d", "/", "a", ".", "f", "l", "a", "c">>
PathB == <<"/", "d", "/", "B", ".", "F", "L", "A", "C">>
PathMp3 == <<"/", "d", "/", "c", ".", "m", "p", "3">>

\* the FLAC files of the file system: the files metaflac can read and write
FlacFiles == {PathA, PathB}

\* every path of the file system, which os.path.exists consults
ExistingPaths == FlacFiles \cup {PathMp3}

\* os.path.abspath of a path without "." or ".." segments
abspath(p) == IF p # <<>> /\ p[1] = "/" THEN p ELSE Cwd \o <<"/">> \o p

\* os.path.exists
exists(p) == p # <<>> /\ abspath(p) \in ExistingPaths

(***************************************************************************)
(* The external tool.  An invocation is [op, arg, file, rc]; rc is "ok",   *)
(* "nonzero" (CalledProcessError under check=True) or "notfound" (no       *)
(* executable: FileNotFoundError, and no process is launched).             *)
(***************************************************************************)
Invocation(o, a, f) == [op |-> o, arg |-> a, file |-> f, rc |-> "ok"]

\* ['metaflac', '--version']
Probe == Invocation("version", <<>>, <<>>)

\* ['metaflac', '--export-tags-to=-', file]
ExportTags(f) == Invocation("export-tags", <<>>, f)

\* ['metaflac', '--remove-all-tags', file]
RemoveAllTags(f) == Invocation("remove-all-tags", <<>>, f)

\* ['metaflac', '--set-tag=' + a, file]
SetTag(a, f) == Invocation("set-tag", a, f)

\* ['metaflac', '--list', '--block-type=VORBIS_COMMENT', file]
ListBlock(f) == Invocation("list", <<>>, f)

\* How the invocations of one handler end, the probe being the first and those
\* of plan following it: all succeed (k = 0), or the k-th is the first to
\* fail.  The probe fails with a non-zero exit or a missing executable; an
\* executable the probe has found is still there for the later invocations,
\* which fail with a non-zero exit.
Outcomes(plan) ==
    {[k |-> 0, kind |-> "ok"], [k |-> 1, kind |-> "nonzero"], [k |-> 1, kind |-> "notfound"]}
        \cup {[k |-> i + 1, kind |-> "nonzero"] : i \in 1..Len(plan)}

\* check_metaflac() returning True whatever the probe did
check_metaflac_always(out) == TRUE

\* check_metaflac(): the probe with its outcome, and the value returned
probe_run(out) == [Probe EXCEPT !.rc = IF out.k = 1 THEN out.kind ELSE "ok"]
check_metaflac(out) == out.k # 1

\* a try block that goes on after the invocation that failed
try_block_continue(plan, out) ==
    [i \in 1..Len(plan) |->
         IF out.k > 1 /\ i = out.k - 1 THEN [plan[i] EXCEPT !.rc = out.kind] ELSE plan[i]]

\* The invocations a try block makes of plan: subprocess.run raises at the
\* first failure and the statements after it are not executed.
try_block(plan, out) ==
    IF out.k <= 1 THEN plan
    ELSE [i \in 1..(out.k - 1) |->
              IF i = out.k - 1 THEN [plan[i] EXCEPT !.rc = out.kind] ELSE plan[i]]

\* a try block raised CalledProcessError
try_failed(out) == out.k > 1

\* what one invocation leaves on the files: remove-all-tags empties the file's
\* comment, set-tag appends one line; a failed invocation writes nothing
metaflac(d, inv) ==
    IF inv.rc # "ok" \/ inv.file \notin DOMAIN d THEN d
    ELSE IF inv.op = "remove-all-tags" THEN [d EXCEPT ![inv.file] = <<>>]
    ELSE IF inv.op = "set-tag" THEN [d EXCEPT ![inv.file] = Append(@, inv.arg)]
    ELSE d

RECURSIVE metaflac_all(_, _)
metaflac_all(d, log) ==
    IF log = <<>> THEN d ELSE metaflac_all(metaflac(d, Head(log)), Tail(log))

\* stdout of --export-tags-to=-: every stored line followed by a newline
RECURSIVE export_stdout(_)
export_stdout(lines) ==
    IF lines = <<>> THEN <<>> ELSE Head(lines) \o <<NL>> \o export_stdout(Tail(lines))

(***************************************************************************)
(* The form: the tag entries and the custom-tags text                      *)
(***************************************************************************)
\* the entries as setup_ui creates them: one per common tag, all empty
EmptyEntries == [t \in TagNames |-> <<>>]

\* self.custom_tags_text.get(1.0, tk.END): the content and the widget's final newline
text_get(text) == text \o <<NL>>

\* load_tags' loop over the exported lines: acc is [entries, custom]
RECURSIVE parse_lines(_, _)
parse_lines(lines, acc) ==
    IF lines = <<>> THEN acc
    ELSE LET line == Head(lines)
             kv == split_once(line, EQ)
             key == upper(kv[1])
         IN  IF ~contains(line, EQ) THEN parse_lines(Tail(lines), acc)
             ELSE IF key \in DOMAIN acc.entries
                  THEN parse_lines(Tail(lines),
                                   [acc EXCEPT !.entries[key] = kv[2]])
                  ELSE parse_lines(Tail(lines),
                                   [acc EXCEPT !.custom = Append(@, line)])

\* the lines load_tags parses: result.stdout.strip().split('\n')
export_lines(out_text) == split(strip(out_text), NL)

\* what load_tags leaves in the form, after clear_form, for the exported text
parse_export(out_text) ==
    LET r == parse_lines(export_lines(out_text), [entries |-> EmptyEntries, custom |-> <<>>])
    IN  [entries |-> r.entries,
         text |-> IF r.custom # <<>> THEN join(r.custom, NL) ELSE <<>>]

\* save_tags' loop over self.tag_entries.items(), from the i-th common tag on:
\* the set-tag arguments of the entries whose stripped text is not empty
RECURSIVE common_tag_args(_, _)
common_tag_args(entries, i) ==
    IF i > Len(common_tags) THEN <<>>
    ELSE LET tag == common_tags[i]
             value == strip(entries[tag])
         IN  (IF value # <<>> THEN <<tag \o <<EQ>> \o value>> ELSE <<>>)
                 \o common_tag_args(entries, i + 1)

\* the stripped lines of a custom text that are written: not empty and with '='
RECURSIVE custom_line_args(_)
custom_line_args(lines) ==
    IF lines = <<>> THEN <<>>
    ELSE LET line == strip(Head(lines))
         IN  (IF line # <<>> /\ contains(line, EQ) THEN <<line>> ELSE <<>>)
                 \o custom_line_args(Tail(lines))

\* save_tags' custom-tags part: the set-tag arguments of the custom text
custom_tag_args(text) ==
    LET custom_text == strip(text_get(text))
    IN  IF custom_text # <<>> THEN custom_line_args(split(custom_text, NL)) ELSE <<>>

\* the set-tag invocations of a save, in the order they are made
set_tag_plan(f, entries, text) ==
    LET args == common_tag_args(entries, 1) \o custom_tag_args(text)
    IN  [i \in 1..Len(args) |-> SetTag(args[i], f)]

\* save_plan with the removal made after the set-tags
save_plan_remove_last(f, entries, text) ==
    set_tag_plan(f, entries, text) \o <<RemoveAllTags(f)>>

\* the invocations of save_tags' try block: remove-all-tags, then the set-tags
save_plan(f, entries, text) == <<RemoveAllTags(f)>> \o set_tag_plan(f, entries, text)

\* the invocation of load_tags' try block
load_plan(f) == <<ExportTags(f)>>

\* the invocation of remove_all_tags' try block
remove_plan(f) == <<RemoveAllTags(f)>>

\* the invocation of show_raw_output's try block
raw_plan(f) == <<ListBlock(f)>>

\* "if not self.current_file": the guard every file handler starts with
no_file_selected(cf) == ~truthy(cf)

\* a file handler that probes for the tool before it looks for a file
handler_launches_probe_first(cf, plan, out) ==
    IF no_file_selected(cf) THEN <<probe_run(out)>>
    ELSE <<probe_run(out)>> \o (IF check_metaflac(out) THEN try_block(plan, out) ELSE <<>>)

\* The invocations of a file handler: none without a file; else the probe and,
\* when check_metaflac() returned True, those of its try block.
handler_launches(cf, plan, out) ==
    IF no_file_selected(cf) THEN <<>>
    ELSE <<probe_run(out)>> \o (IF check_metaflac(out) THEN try_block(plan, out) ELSE <<>>)

\* the condition under which main() accepts the startup path
path_accepted(p) == exists(p) /\ endswith(lower(p), FlacSuffix)

(***************************************************************************)
(* The handlers.  Each action is one whole handler: the invocations it     *)
(* makes, with their outcome out, are made within the step.                *)
(***************************************************************************)
\* clear_form emptying the entries and leaving the custom-tags text
do_clear_form_entries_only ==
    /\ tag_entries' = EmptyEntries
    /\ custom_tags_text' = custom_tags_text

\* clear_form's effect on the form
do_clear_form ==
    /\ tag_entries' = EmptyEntries
    /\ custom_tags_text' = <<>>

\* the body of load_tags for self.current_file = cf
do_load_tags(cf, out) ==
    /\ launches' = handler_launches(cf, load_plan(cf[1]), out)
    /\ IF no_file_selected(cf)
       THEN /\ dialogs' = <<"showwarning: select a file">>
            /\ UNCHANGED <<tag_entries, custom_tags_text>>
       ELSE IF ~check_metaflac(out)
       THEN /\ dialogs' = <<"showerror: metaflac not found">>
            /\ UNCHANGED <<tag_entries, custom_tags_text>>
       ELSE IF try_failed(out)
       THEN \* clear_form() has run, the export raised CalledProcessError
            /\ dialogs' = <<"showerror: failed to load">>
            /\ do_clear_form
       ELSE LET form == parse_export(export_stdout(disk[cf[1]]))
            IN  /\ dialogs' = <<>>
                /\ tag_entries' = form.entries
                /\ custom_tags_text' = form.text

\* the outcomes of the invocations a handler makes on file f: every invocation
\* on a file that is no FLAC file fails
OutcomesOn(f, plan) ==
    IF f \in FlacFiles THEN Outcomes(plan) ELSE {o \in Outcomes(plan) : o.k \in {1, 2}}

\* main(), with MetaFLACGUI.__init__ and its initial load_tags
main ==
    /\ phase = "start"
    /\ LET file == IF argv = <<>> THEN None ELSE Some(argv[1])
           accepted == truthy(file) /\ path_accepted(file[1])
           initial_file == IF accepted THEN Some(abspath(file[1])) ELSE None
       IN  IF truthy(file) /\ ~accepted
           THEN /\ stdout' = stdout \cup {"Error: does not exist or is not a FLAC file"}
                /\ exit_status' = Some(1)
                /\ phase' = "exited"
                /\ UNCHANGED <<window, current_file, tag_entries, custom_tags_text,
                               launches, dialogs>>
           ELSE /\ window' = TRUE
                /\ current_file' = initial_file
                /\ phase' = "running"
                /\ IF truthy(initial_file)
                   THEN \E out \in OutcomesOn(initial_file[1], load_plan(initial_file[1])) :
                            do_load_tags(initial_file, out)
                   ELSE UNCHANGED <<tag_entries, custom_tags_text, launches, dialogs>>
                /\ UNCHANGED <<stdout, exit_status>>
    /\ op' = "main"
    /\ saved' = None
    /\ UNCHANGED <<argv, stderr, disk>>

\* browse_file, the file dialog returning filename ("" when cancelled)
browse_file(filename) ==
    /\ phase = "running"
    /\ current_file' = IF filename # <<>> THEN Some(filename) ELSE current_file
    /\ op' = "browse_file"
    /\ launches' = <<>>
    /\ dialogs' = <<>>
    /\ saved' = None
    /\ UNCHANGED <<argv, phase, exit_status, stdout, stderr, window, tag_entries,
                   custom_tags_text, disk>>

\* load_tags, from the Load Tags button
load_tags(out) ==
    /\ phase = "running"
    /\ do_load_tags(current_file, out)
    /\ op' = "load_tags"
    /\ UNCHANGED <<argv, phase, exit_status, stdout, stderr, window, current_file, disk,
                   saved>>

\* the message boxes of a save
save_dialogs(cf, out) ==
    IF no_file_selected(cf) THEN <<"showwarning: select a file">>
    ELSE IF ~check_metaflac(out) THEN <<"showerror: metaflac not found">>
    ELSE IF try_failed(out) THEN <<"showerror: failed to save">>
    ELSE <<>>

\* every invocation of the save was made and none failed
save_completed(cf, out) == ~no_file_selected(cf) /\ check_metaflac(out) /\ ~try_failed(out)

\* save_tags
save_tags(out) ==
    /\ phase = "running"
    /\ LET log == handler_launches(current_file,
                       save_plan(current_file[1], tag_entries, custom_tags_text), out)
       IN  /\ launches' = log
           /\ disk' = metaflac_all(disk, log)
    /\ dialogs' = save_dialogs(current_file, out)
    /\ saved' = IF save_completed(current_file, out)
                THEN Some([file |-> current_file[1], entries |-> tag_entries,
                           text |-> custom_tags_text])
                ELSE None
    /\ op' = "save_tags"
    /\ UNCHANGED <<argv, phase, exit_status, stdout, stderr, window, current_file,
                   tag_entries, custom_tags_text>>

\* save_and_exit_plan writing the entries as typed, without str.strip()
save_and_exit_plan_unstripped(f, entries, text) ==
    LET value(i) == entries[common_tags[i]]
        written(i) == value(i) # <<>>
        tags == SelectSeq([i \in 1..Len(common_tags) |-> i], written)
        custom_text == strip(text_get(text))
        lines == IF custom_text # <<>> THEN split(custom_text, NL) ELSE <<>>
        kept(line) == strip(line) # <<>> /\ contains(strip(line), EQ)
        custom == SelectSeq(lines, kept)
    IN  <<RemoveAllTags(f)>>
            \o [n \in 1..Len(tags) |-> SetTag(common_tags[tags[n]] \o <<EQ>> \o value(tags[n]), f)]
            \o [n \in 1..Len(custom) |-> SetTag(strip(custom[n]), f)]

\* The invocations of save_tags_and_exit's try block, from its own statements:
\* remove-all-tags; for each entry in the order of self.tag_entries, a set-tag
\* of its stripped text when that is not empty; for each line of the stripped
\* custom text, a set-tag of the stripped line when it is not empty and holds '='.
save_and_exit_plan(f, entries, text) ==
    LET value(i) == strip(entries[common_tags[i]])
        written(i) == value(i) # <<>>
        tags == SelectSeq([i \in 1..Len(common_tags) |-> i], written)
        custom_text == strip(text_get(text))
        lines == IF custom_text # <<>> THEN split(custom_text, NL) ELSE <<>>
        kept(line) == strip(line) # <<>> /\ contains(strip(line), EQ)
        custom == SelectSeq(lines, kept)
    IN  <<RemoveAllTags(f)>>
            \o [n \in 1..Len(tags) |-> SetTag(common_tags[tags[n]] \o <<EQ>> \o value(tags[n]), f)]
            \o [n \in 1..Len(custom) |-> SetTag(strip(custom[n]), f)]

\* save_tags_and_exit: its own copy of the save, then root.quit() ends the
\* mainloop and main() returns
save_tags_and_exit(out) ==
    /\ phase = "running"
    /\ LET log == handler_launches(current_file,
                       save_and_exit_plan(current_file[1], tag_entries, custom_tags_text), out)
       IN  /\ launches' = log
           /\ disk' = metaflac_all(disk, log)
    /\ dialogs' = save_dialogs(current_file, out)
    /\ phase' = IF save_completed(current_file, out) THEN "quit" ELSE phase
    /\ exit_status' = IF save_completed(current_file, out) THEN Some(0) ELSE exit_status
    /\ saved' = None
    /\ op' = "save_tags_and_exit"
    /\ UNCHANGED <<argv, stdout, stderr, window, current_file, tag_entries,
                   custom_tags_text>>

\* the message boxes of remove_all_tags
remove_dialogs(cf, confirm, out) ==
    IF no_file_selected(cf) THEN <<"showwarning: select a file">>
    ELSE <<"askyesno: remove all tags">>
             \o (IF ~confirm THEN <<>>
                 ELSE IF ~check_metaflac(out) THEN <<"showerror: metaflac not found">>
                 ELSE IF try_failed(out) THEN <<"showerror: failed to remove">>
                 ELSE <<"showinfo: removed">>)

\* remove_all_tags, the user answering the confirmation with confirm
remove_all_tags(confirm, out) ==
    /\ phase = "running"
    /\ LET log == IF ~confirm THEN <<>>
                  ELSE handler_launches(current_file, remove_plan(current_file[1]), out)
       IN  /\ launches' = log
           /\ disk' = metaflac_all(disk, log)
    /\ dialogs' = remove_dialogs(current_file, confirm, out)
    /\ IF ~no_file_selected(current_file) /\ confirm /\ check_metaflac(out) /\ ~try_failed(out)
       THEN do_clear_form
       ELSE UNCHANGED <<tag_entries, custom_tags_text>>
    /\ saved' = None
    /\ op' = "remove_all_tags"
    /\ UNCHANGED <<argv, phase, exit_status, stdout, stderr, window, current_file>>

\* show_raw_output
show_raw_output(out) ==
    /\ phase = "running"
    /\ launches' = handler_launches(current_file, raw_plan(current_file[1]), out)
    /\ dialogs' = IF no_file_selected(current_file) THEN <<"showwarning: select a file">>
                  ELSE IF ~check_metaflac(out) THEN <<"showerror: metaflac not found">>
                  ELSE IF try_failed(out) THEN <<"showerror: failed to get raw output">>
                  ELSE <<"toplevel: raw output">>
    /\ saved' = None
    /\ op' = "show_raw_output"
    /\ UNCHANGED <<argv, phase, exit_status, stdout, stderr, window, current_file,
                   tag_entries, custom_tags_text, disk>>

\* clear_form, from the Clear Form button
clear_form ==
    /\ phase = "running"
    /\ do_clear_form
    /\ op' = "clear_form"
    /\ launches' = <<>>
    /\ dialogs' = <<>>
    /\ saved' = None
    /\ UNCHANGED <<argv, phase, exit_status, stdout, stderr, window, current_file, disk>>

\* the user types text into the entry of tag, replacing what it held
type_entry(tag, text) ==
    /\ phase = "running"
    /\ tag_entries' = [tag_entries EXCEPT ![tag] = text]
    /\ op' = "type_entry"
    /\ launches' = <<>>
    /\ dialogs' = <<>>
    /\ saved' = None
    /\ UNCHANGED <<argv, phase, exit_status, stdout, stderr, window, current_file,
                   custom_tags_text, disk>>

\* clear_entry: the delete button beside the entry of tag
clear_entry(tag) ==
    /\ phase = "running"
    /\ tag_entries' = [tag_entries EXCEPT ![tag] = <<>>]
    /\ op' = "clear_entry"
    /\ launches' = <<>>
    /\ dialogs' = <<>>
    /\ saved' = None
    /\ UNCHANGED <<argv, phase, exit_status, stdout, stderr, window, current_file,
                   custom_tags_text, disk>>

\* the user types text into the custom-tags area, replacing what it held
type_custom_text(text) ==
    /\ phase = "running"
    /\ custom_tags_text' = text
    /\ op' = "type_custom_text"
    /\ launches' = <<>>
    /\ dialogs' = <<>>
    /\ saved' = None
    /\ UNCHANGED <<argv, phase, exit_status, stdout, stderr, window, current_file,
                   tag_entries, disk>>

(***************************************************************************)
(* Inputs                                                                  *)
(***************************************************************************)
\* the sequences over S of length at most n
SeqsUpTo(S, n) == UNION {[1..m -> S] : m \in 0..n}

\* the outcomes of a file handler whose try block makes the invocations of plan:
\* without a file it makes none
OutcomesFor(plan) ==
    IF no_file_selected(current_file) THEN {[k |-> 0, kind |-> "ok"]}
    ELSE OutcomesOn(current_file[1], plan)

\* the command lines the process is started with: no path, an empty path, a FLAC
\* file by relative and by absolute name, a file of another type, a missing file
StartupArgs ==
    { <<>>,
      << <<>> >>,
      << <<"a", ".", "f", "l", "a", "c">> >>,
      << PathB >>,
      << <<"c", ".", "m", "p", "3">> >>,
      << <<"x", ".", "f", "l", "a", "c">> >> }

\* what the files hold when the process starts
StartDisk == (PathA :> << <<"B", "P", "M", "=", "9">> >>) @@ (PathB :> <<>>)

\* the answers of the file dialog: a FLAC file, or "" when cancelled
BrowseAnswers == FlacFiles \cup {<<>>}

\* the entries the user of the session types into, and what is typed
SessionTags == {common_tags[1]}
SessionTexts == {<<" ", "1", " ">>}
SessionCustomTexts == {<<"Y", "=", "2">>}

Init ==
    /\ argv \in StartupArgs
    /\ phase = "start"
    /\ exit_status = None
    /\ stdout = {}
    /\ stderr = {}
    /\ window = FALSE
    /\ current_file = None
    /\ tag_entries = EmptyEntries
    /\ custom_tags_text = <<>>
    /\ disk = StartDisk
    /\ op = "none"
    /\ launches = <<>>
    /\ dialogs = <<>>
    /\ saved = None

\* the handlers that take no typed text
Handlers ==
    \/ \E filename \in BrowseAnswers : browse_file(filename)
    \/ \E out \in OutcomesFor(load_plan(current_file[1])) : load_tags(out)
    \/ \E out \in OutcomesFor(save_plan(current_file[1], tag_entries, custom_tags_text)) :
           save_tags(out)
    \/ \E out \in OutcomesFor(save_and_exit_plan(current_file[1], tag_entries,
                                                custom_tags_text)) :
           save_tags_and_exit(out)
    \/ \E confirm \in BOOLEAN :
           \E out \in IF confirm THEN OutcomesFor(remove_plan(current_file[1]))
                      ELSE {[k |-> 0, kind |-> "ok"]} :
               remove_all_tags(confirm, out)
    \/ \E out \in OutcomesFor(raw_plan(current_file[1])) : show_raw_output(out)
    \/ clear_form

Next ==
    \/ main
    \/ Handlers
    \/ \E tag \in SessionTags : clear_entry(tag)
    \/ \E tag \in SessionTags, text \in SessionTexts : type_entry(tag, text)
    \/ \E text \in SessionCustomTexts : type_custom_text(text)

Spec == Init /\ [][Next]_vars

(***************************************************************************)
(* The tag exchange on its own: a session on PathA whose form, or whose    *)
(* file, holds any of a bounded set of texts, then saved and loaded.       *)
(***************************************************************************)
\* how many of the common tags, from the first, hold text in the forms tried
NumEditTags == 2
\* the most lines of a custom-tags text tried
MaxCustomLines == 2
\* the most lines another program has left in the file
MaxExportLines == 2

EditTags == {common_tags[i] : i \in 1..NumEditTags}

\* entry texts: empty, blank, and text with blanks around it
EntrySamples == {<<>>, <<" ">>, <<" ", "b", " ">>}

\* custom lines: a pair with blanks around it, a line without '=', and a pair
\* whose key is a common tag in lower case
CustomLineSamples ==
    { <<" ", "y", "=", "2", " ">>,
      <<"j", "u", "n", "k">>,
      <<"b", "p", "m", "=", "7">> }

\* exported lines: common tags in upper, lower and mixed case, a value with '='
\* in it, values and keys with blanks at the ends, a custom pair, a line without '='
ExportLineSamples ==
    { <<"T", "I", "T", "L", "E", "=", "S", "o", "n", "g">>,
      <<"t", "i", "t", "l", "e", "=", "x", " ">>,
      <<"G", "e", "n", "r", "e", "=", "g", "=", "h">>,
      <<"X", "C", "U", "S", "T", "O", "M", "=", "1">>,
      <<" ", "k", "=", "v">>,
      <<"j", "u", "n", "k">> }

IOEntries ==
    {[t \in TagNames |-> IF t \in EditTags THEN v[t] ELSE <<>>] : v \in [EditTags -> EntrySamples]}

IOCustomTexts == {join(ls, NL) : ls \in SeqsUpTo(CustomLineSamples, MaxCustomLines)}

\* a tag no form tried holds, left in the file by an earlier save
PriorDisk == (PathA :> << <<"D", "A", "T", "E", "=", "1", "9", "9", "9">> >>) @@ (PathB :> <<>>)

\* a form left by an earlier load, which the next load replaces
PriorEntries == [EmptyEntries EXCEPT ![common_tags[Len(common_tags)]] = <<"o", "l", "d">>]
PriorCustomText == <<"O", "=", "0">>

InitIO ==
    /\ argv = <<PathA>>
    /\ phase = "running"
    /\ exit_status = None
    /\ stdout = {}
    /\ stderr = {}
    /\ window = TRUE
    /\ current_file = Some(PathA)
    /\ op = "type_custom_text"
    /\ launches = <<>>
    /\ dialogs = <<>>
    /\ saved = None
    /\ \/ /\ tag_entries \in IOEntries
          /\ custom_tags_text \in IOCustomTexts
          /\ disk = PriorDisk
       \/ /\ tag_entries = PriorEntries
          /\ custom_tags_text = PriorCustomText
          /\ disk \in {[PriorDisk EXCEPT ![PathA] = ls] :
                          ls \in SeqsUpTo(ExportLineSamples, MaxExportLines)}

NextIO ==
    \/ \E out \in OutcomesFor(load_plan(current_file[1])) : load_tags(out)
    \/ \E out \in OutcomesFor(save_plan(current_file[1], tag_entries, custom_tags_text)) :
           save_tags(out)
    \/ \E out \in OutcomesFor(save_and_exit_plan(current_file[1], tag_entries,
                                                custom_tags_text)) :
           save_tags_and_exit(out)

SpecIO == InitIO /\ [][NextIO]_vars

(***************************************************************************)
(* Properties                                                              *)
(***************************************************************************)
\* the file the handlers work on
Cur == current_file[1]

\* every invocation the last handler attempted succeeded, and it attempted some
AllSucceeded == launches # <<>> /\ \A i \in 1..Len(launches) : launches[i].rc = "ok"

\* the last handler was a save_tags that made all its invocations, none failing
SaveTagsSucceeded == op = "save_tags" /\ AllSucceeded

\* the lines of the custom-tags text, and those that hold '=' once trimmed
CustomLines == split(custom_tags_text, NL)
CustomWritten == {j \in 1..Len(CustomLines) : contains(strip(CustomLines[j]), EQ)}

\* the common tags, by position, whose entry is not empty
FieldsNonEmpty == {i \in 1..Len(common_tags) : tag_entries[common_tags[i]] # <<>>}

\* the common tags, by position, whose entry is not empty once trimmed
FieldsNonBlank == {i \in 1..Len(common_tags) : strip(tag_entries[common_tags[i]]) # <<>>}

\* arg is a set-tag argument for the key tag
HasKey(arg, tag) == Len(arg) > Len(tag) /\ SubSeq(arg, 1, Len(tag) + 1) = tag \o <<EQ>>

\* The invocations are: the probe, remove-all-tags on the file, one set-tag per
\* common tag of W in the order of common_tags, then one set-tag per custom
\* line that holds '=', trimmed, in the order of the text; and nothing else.
SaveLaunchesAre(W) ==
    LET posW(i) == 2 + Cardinality({x \in W : x <= i})
        posC(j) == 2 + Cardinality(W) + Cardinality({x \in CustomWritten : x <= j})
    IN  /\ Len(launches) = 2 + Cardinality(W) + Cardinality(CustomWritten)
        /\ launches[1] = Probe
        /\ launches[2] = RemoveAllTags(Cur)
        /\ \A i \in W :
               /\ launches[posW(i)].op = "set-tag"
               /\ launches[posW(i)].file = Cur
               /\ HasKey(launches[posW(i)].arg, common_tags[i])
        /\ \A j \in CustomWritten : launches[posC(j)] = SetTag(strip(CustomLines[j]), Cur)

\* C1 as stated: after a save_tags whose invocations all succeeded, the
\* invocations are the probe, one remove-all-tags, one set-tag per common tag
\* whose entry is not empty, in the order of common_tags, then one set-tag per
\* custom line holding '=' after trimming, in text order.
C1_SaveLaunchesPerNonEmptyField == SaveTagsSucceeded => SaveLaunchesAre(FieldsNonEmpty)

\* C1, amended: the same, with one set-tag per common tag whose entry is not
\* empty after trimming whitespace, carrying the trimmed text; an entry of
\* whitespace alone is skipped like an empty one.
C1_SaveLaunchesPerNonBlankField ==
    SaveTagsSucceeded =>
        /\ SaveLaunchesAre(FieldsNonBlank)
        /\ \A i \in FieldsNonBlank :
               \E n \in 3..Len(launches) :
                   launches[n].arg = common_tags[i] \o <<EQ>> \o strip(tag_entries[common_tags[i]])

\* a completed save of a form with a blank entry, an entry with text, a custom
\* line without '=' and a custom line with blanks around its pair
C1_Witness ==
    /\ SaveTagsSucceeded
    /\ tag_entries[common_tags[1]] = <<" ">>
    /\ 2 \in FieldsNonBlank
    /\ \E j \in 1..Len(CustomLines) : j \notin CustomWritten
    /\ \E j \in CustomWritten : strip(CustomLines[j]) # CustomLines[j]
    /\ Len(launches) = 4

\* the last handler was a load_tags whose probe and export both succeeded
LoadTagsSucceeded == op = "load_tags" /\ Len(launches) = 2 /\ AllSucceeded

\* a line KEY=VALUE, its key (the text before the first '=') and its value
IsPair(l) == \E i \in 1..Len(l) : l[i] = EQ
KeyOf(l) == SubSeq(l, 1, first_index(l, EQ) - 1)
ValueOf(l) == SubSeq(l, first_index(l, EQ) + 1, Len(l))

\* the key of the pair l is the name of the common tag t, whatever its case
MatchesField(l, t) == IsPair(l) /\ lower(KeyOf(l)) = lower(t)

\* a pair whose key is no common tag
IsCustomPair(l) == IsPair(l) /\ \A t \in TagNames : ~MatchesField(l, t)

\* the greatest element of a non-empty set of numbers
Greatest(S) == CHOOSE x \in S : \A y \in S : y <= x

\* The form holds, of the lines ls: in the entry of each common tag the value of
\* the last pair whose key matches it, or nothing when none does; as custom
\* text the pairs whose key matches no common tag, as they are and in order.
FormHoldsLines(ls) ==
    /\ \A t \in TagNames :
           LET matching == {i \in 1..Len(ls) : MatchesField(ls[i], t)}
           IN  tag_entries[t] = IF matching = {} THEN <<>> ELSE ValueOf(ls[Greatest(matching)])
    /\ custom_tags_text = join(SelectSeq(ls, IsCustomPair), NL)

\* C2: after a load_tags that succeeded, each common tag's entry holds the text
\* after the first '=' of the last exported line whose key matches it in any
\* case, every other entry is empty, and the custom text is the exported lines
\* with '=' that match no common tag, verbatim and in order; lines without '='
\* are dropped.
C2_LoadKeepsExportedLinesVerbatim == LoadTagsSucceeded => FormHoldsLines(disk[Cur])

\* the last handler was a load_tags that succeeded, run after a save_tags that
\* wrote the form saved[1] to the same file in full, nothing but loads between
LoadedAfterSave == LoadTagsSucceeded /\ saved # None /\ saved[1].file = Cur

\* the lines of a custom-tags text, each trimmed
TrimmedLines(text) ==
    LET ls == split(text, NL) IN [j \in 1..Len(ls) |-> strip(ls[j])]

\* C3 as stated: a load after a completed save yields the saved form restricted
\* to its non-empty entries and its custom lines holding '=': the same values,
\* the same custom lines in the same order, nothing else.
C3_RoundTripReturnsSavedForm ==
    LoadedAfterSave =>
        /\ tag_entries = saved[1].entries
        /\ custom_tags_text = join(SelectSeq(split(saved[1].text, NL), IsPair), NL)

\* C3, amended: a load after a completed save yields, in each common tag's
\* entry, the saved entry trimmed of surrounding whitespace, unless a saved
\* custom line is a pair whose key is that tag's name in any case, and then the
\* value of the last such line; and as custom text the saved custom lines,
\* trimmed, that are pairs whose key is no common tag, in order.
C3_RoundTripReturnsTrimmedForm ==
    LoadedAfterSave =>
        LET lines == TrimmedLines(saved[1].text)
        IN  /\ \A t \in TagNames :
                   LET over == {j \in 1..Len(lines) : MatchesField(lines[j], t)}
                   IN  tag_entries[t] = IF over = {} THEN strip(saved[1].entries[t])
                                        ELSE ValueOf(lines[Greatest(over)])
            /\ custom_tags_text = join(SelectSeq(lines, IsCustomPair), NL)

\* a load after the save of a form with an entry with blanks around its text and
\* a custom line that names a common tag in lower case
C3_Witness ==
    /\ LoadedAfterSave
    /\ saved[1].entries[common_tags[1]] = <<" ", "b", " ">>
    /\ saved[1].entries[common_tags[2]] = <<" ", "b", " ">>
    /\ tag_entries[common_tags[1]] = <<"7">>
    /\ tag_entries[common_tags[2]] = <<"b">>
    /\ custom_tags_text = <<"y", "=", "2">>

\* the form holds nothing
FormEmpty == tag_entries = EmptyEntries /\ custom_tags_text = <<>>

\* C4 as stated: the tag set in memory belongs to the file selected; when
\* browse_file replaces the selected file by another, the form then holds no
\* value of the previous file: it is empty, or holds what the new file holds.
C4_SelectionReplacesTagSet ==
    [][(op' = "browse_file" /\ truthy(current_file) /\ current_file' # current_file)
           => LET form == parse_export(export_stdout(disk[current_file'[1]]))
              IN  \/ FormEmpty'
                  \/ tag_entries' = form.entries /\ custom_tags_text' = form.text]_vars

\* the last handler was a save_tags whose remove-all-tags succeeded and whose
\* n-th invocation, a set-tag, exited non-zero
SetTagFailedAt(n) ==
    /\ op = "save_tags"
    /\ n \in 3..Len(launches)
    /\ launches[2].rc = "ok"
    /\ launches[n].op = "set-tag"
    /\ launches[n].rc = "nonzero"

\* C5: when save_tags' remove-all-tags succeeds and a set-tag exits non-zero,
\* that set-tag is the last invocation made (none later, no retry, no rewrite
\* of the prior tags), the invocations made are the first of the save's plan,
\* an error is shown, and the file holds exactly the tags of the set-tags made
\* before the failed one.
C5_SaveAbortsAtFailedSetTag ==
    \A n \in 1..Len(launches) :
        SetTagFailedAt(n) =>
            LET plan == save_plan(Cur, tag_entries, custom_tags_text)
            IN  /\ n = Len(launches)
                /\ n - 1 <= Len(plan)
                /\ launches[1] = Probe
                /\ \A i \in 2..(n - 1) : launches[i] = plan[i - 1]
                /\ [launches[n] EXCEPT !.rc = "ok"] = plan[n - 1]
                /\ dialogs = <<"showerror: failed to save">>
                /\ disk[Cur] = [i \in 1..(n - 3) |-> launches[i + 2].arg]

\* a save of three tags over a file holding another tag, the second set-tag
\* failing: the file holds the first tag alone
C5_Witness ==
    /\ SetTagFailedAt(4)
    /\ Len(save_plan(Cur, tag_entries, custom_tags_text)) = 4
    /\ disk[Cur] = <<launches[3].arg>>
    /\ disk[Cur] # PriorDisk[Cur]

\* the handlers that write to the file
MutatingOps == {"save_tags", "save_tags_and_exit", "remove_all_tags"}

\* C6: when the version probe of a mutating handler finds no executable or
\* exits non-zero, the handler makes no other invocation (no remove-all-tags,
\* no set-tag), shows the tool as missing, leaves the file's tags as they were
\* and the application open.
C6_UnavailableToolBlocksMutation ==
    [][(op' \in MutatingOps /\ launches' # <<>> /\ launches'[1].rc # "ok")
           => /\ Len(launches') = 1
              /\ launches'[1].op = "version"
              /\ dialogs'[Len(dialogs')] = "showerror: metaflac not found"
              /\ disk' = disk
              /\ phase' = phase]_vars

\* a save of a form that holds text, to a file that holds a tag, stopped by a
\* missing executable
C6_Witness ==
    /\ op = "save_tags"
    /\ launches = <<[Probe EXCEPT !.rc = "notfound"]>>
    /\ ~FormEmpty
    /\ disk[Cur] # <<>>

\* the handlers that work on the selected file
FileOps == MutatingOps \cup {"load_tags", "show_raw_output"}

\* C7: with no file selected, a handler that works on the file shows the
\* warning and returns: it makes no invocation, not even the version probe,
\* and leaves the form, the files and the application as they were.
C7_NoFileNoLaunch ==
    [][(~truthy(current_file) /\ op' \in FileOps)
           => /\ dialogs' = <<"showwarning: select a file">>
              /\ launches' = <<>>
              /\ tag_entries' = tag_entries
              /\ custom_tags_text' = custom_tags_text
              /\ disk' = disk
              /\ phase' = phase]_vars

\* save_tags with no file selected and text typed in the form
C7_Witness ==
    /\ ~truthy(current_file)
    /\ op = "save_tags"
    /\ dialogs = <<"showwarning: select a file">>
    /\ ~FormEmpty

\* p ends in ".flac", in any case
EndsInFlac(p) == Len(p) >= 5 /\ lower(SubSeq(p, Len(p) - 4, Len(p))) = <<".", "f", "l", "a", "c">>

\* the path argument the process was started with is missing or no FLAC name
PathArgumentBad == argv # <<>> /\ (~exists(argv[1]) \/ ~EndsInFlac(argv[1]))

\* C8 as stated: started with a path argument that does not exist or does not
\* end in ".flac", the process exits non-zero with no window created and no
\* tool launched; a window exists only when no path was given or the path was
\* accepted, and an accepted path is stored absolute.
C8_StartupRejectsBadPath ==
    phase # "start" =>
        /\ PathArgumentBad =>
               /\ phase = "exited"
               /\ exit_status # None /\ exit_status # Some(0)
               /\ ~window
               /\ launches = <<>>
        /\ window => ~PathArgumentBad
        /\ (op = "main" /\ argv # <<>> /\ ~PathArgumentBad) =>
               current_file = Some(abspath(argv[1])) /\ current_file[1][1] = "/"

\* C9 as stated: when the startup path is rejected the error message is on
\* standard error and not on standard output.
C9_RejectionOnStderr == phase = "exited" => stderr # {} /\ stdout = {}

\* C10: remove_all_tags on a selected file, the tool available, makes exactly
\* one remove-all-tags invocation, on that file; when it succeeds the form is
\* emptied and the file holds no tag; when the user declines or an invocation
\* fails the form is left as it was.
C10_RemoveAllKeepsFormInStep ==
    [][(op' = "remove_all_tags" /\ truthy(current_file))
           => /\ (launches' # <<>> /\ launches'[1].rc = "ok")
                     => /\ Len(launches') = 2
                        /\ launches'[2].op = "remove-all-tags"
                        /\ launches'[2].file = current_file[1]
              /\ IF AllSucceeded'
                 THEN FormEmpty' /\ disk'[current_file[1]] = <<>>
                 ELSE /\ tag_entries' = tag_entries
                      /\ custom_tags_text' = custom_tags_text
                      /\ launches' = <<>> => disk' = disk]_vars

\* a confirmed removal that succeeded on the file that held a tag
C10_Witness ==
    /\ op = "remove_all_tags"
    /\ AllSucceeded
    /\ Cur = PathA
    /\ disk[PathA] = <<>>
    /\ FormEmpty

\* C11: save_tags_and_exit makes the invocations save_tags makes of the same
\* form and file under the same outcomes, with the same arguments, shows the
\* same message boxes and leaves the files as save_tags leaves them; it quits,
\* with status 0, exactly when it made invocations and every one succeeded;
\* after the warning, a failed probe or a failed invocation the application
\* stays open; the form is left as it was.
C11_SaveAndExitRefinesSave ==
    [][op' = "save_tags_and_exit"
           => \E out \in OutcomesFor(save_plan(current_file[1], tag_entries, custom_tags_text)) :
                  LET log == handler_launches(current_file,
                                 save_plan(current_file[1], tag_entries, custom_tags_text), out)
                      succeeded == log # <<>> /\ \A i \in 1..Len(log) : log[i].rc = "ok"
                  IN  /\ launches' = log
                      /\ disk' = metaflac_all(disk, log)
                      /\ dialogs' = save_dialogs(current_file, out)
                      /\ tag_entries' = tag_entries
                      /\ custom_tags_text' = custom_tags_text
                      /\ current_file' = current_file
                      /\ IF succeeded
                         THEN phase' = "quit" /\ exit_status' = Some(0)
                         ELSE phase' = "running" /\ exit_status' = None]_vars

\* save_tags_and_exit has quit after writing an entry typed with blanks around
\* it and a custom line
C11_Witness ==
    /\ op = "save_tags_and_exit"
    /\ phase = "quit"
    /\ tag_entries[common_tags[1]] = <<" ", "1", " ">>
    /\ Len(launches) = 4
    /\ disk[Cur] = << <<"B", "P", "M", "=", "1">>, <<"Y", "=", "2">> >>

====
